---------------------------- MODULE Spec2Model ----------------------------
(***************************************************************************)
(* Artifact publication pipeline of freeipa-pr-ci (tasks/remote_storage.py) *)
(*                                                                         *)
(*   - the object store (bucket): one job-root marker object per job      *)
(*     prefix "jobs/<name>/", the files uploaded under the prefix, and the *)
(*     root index object "jobs/index.html";                                *)
(*   - the root aggregation pass (CreateRootIndex._run,                    *)
(*     create_jobs_root_index, get_jobs, get_jobdir_metadata);             *)
(*   - the upload task (CloudUpload: create_local_indeces, the two        *)
(*     "aws s3 sync" passes, assign_jobdir_metadata).                      *)
(*                                                                         *)
(* Python values: a value of a string-typed slot is a TLA+ string, with    *)
(* PyNone for Python's None (distinct from the text "None"); an integer    *)
(* argument is written as its decimal text.  A value of an object-typed    *)
(* slot is a record, with NoneObj for None.                                *)
(***************************************************************************)
EXTENDS Integers, Sequences, FiniteSets, TLC

VARIABLES
    \* ---- object store (bucket CLOUD_BUCKET)
    markers,     \* job -> object at key "jobs/<name>/" (NoObject when absent)
    remote,      \* job -> objects stored under the job prefix: key -> object
    rootIndex,   \* object at key CLOUD_JOBS_DIR + "index.html"
    now,         \* clock: LastModified of store writes, mtime of file writes
    \* ---- CreateRootIndex task and its aggregation pass
    repo_owner,  \* CreateRootIndex.repo_owner
    agg_pc,      \* "pending", "listing", "collect", "done"
    token,       \* get_jobs: the paginator's continuation token (last job listed)
    todo,        \* create_jobs_root_index: the prefix of each submitted future
    futures,     \* state and result of each submitted future
    objects,     \* create_jobs_root_index: results in as_completed order
    logged,      \* logging.error messages written so far
    agg_start,   \* the clock and the readable job-root objects when the pass started
    prev,        \* what the earlier CreateRootIndex tasks listed and put
    pool,        \* ThreadPoolExecutor: prefixes to list, calls submitted, running, finished
    \* ---- CloudUpload task
    up_args,     \* the constructor's arguments
    up_self,     \* the task's attributes (NoneObj before construction)
    up_state,    \* "new", "rejected", "pending", "running", "succeeded", "failed"
    up_pc,       \* position in CloudUpload._run
    fs,          \* local job tree: file path -> [mtime, size]
    written,     \* index documents written by each create_local_indeces call
    sent,        \* keys transferred by each sync pass of the current run
    runs,        \* number of CloudUpload tasks run so far
    up_exc,      \* the exception the task has recorded (PyNone when none)
    calls        \* the calls _run has made in the current run, with their outcome

aggVars == <<repo_owner, agg_pc, token, todo, futures, objects, logged,
            agg_start, prev>>
storeVars == <<markers, remote, rootIndex, now>>
upVars == <<up_args, up_self, up_state, up_pc, fs, written, sent, runs, up_exc, calls>>
poolVars == <<pool>>
vars == <<markers, remote, rootIndex, now, repo_owner, agg_pc, token, todo,
          futures, objects, logged, agg_start, prev, pool, up_args, up_self,
          up_state, up_pc, fs, written, sent, runs, up_exc, calls>>

(***************************************************************************)
(* Sizes of the instances explored.                                        *)
(***************************************************************************)
\* number of job prefixes under "jobs/"
MaxJobs == 3
\* LastModified values of the objects present when a pass starts: 1..MaxTime
MaxTime == 2
\* prefixes per page of list_objects_v2 (the store's page size, 1000 in S3)
PageSize == 1

Jobs == 1..MaxJobs

(***************************************************************************)
(* Python values.                                                          *)
(***************************************************************************)
PyNone == "<None>"
NoneObj == [none |-> TRUE]
NoObject == [absent |-> TRUE]

\* dict(): the empty mapping
EmptyMeta == << >>

\* dict.get(key, None)
DictGet(d, k) == IF k \in DOMAIN d THEN d[k] ELSE PyNone

(***************************************************************************)
(* Job names and the job-id format check.                                  *)
(***************************************************************************)
Rep(c, n) == [i \in 1..n |-> c]

Digits == <<"1", "2", "3", "4", "5", "6", "7", "8", "9">>

HexChars == {"0", "1", "2", "3", "4", "5", "6", "7", "8", "9",
             "a", "b", "c", "d", "e", "f"}

\* the canonical text built from one hex digit: dddddddd-dddd-dddd-dddd-dddddddddddd
UuidOf(c) == Rep(c, 8) \o <<"-">> \o Rep(c, 4) \o <<"-">> \o Rep(c, 4)
             \o <<"-">> \o Rep(c, 4) \o <<"-">> \o Rep(c, 12)

\* The name of job j under "jobs/", as characters.  Every third prefix,
\* starting with the second, is a directory that is no job (its name is a
\* cut-off id); the others carry canonical ids.  Names sort as the jobs do.
NameText(j) ==
    IF j % 3 = 2 THEN Rep(Digits[j], 8) \o <<"-">> \o Rep(Digits[j], 4)
                 ELSE UuidOf(Digits[j])

\* UUID_RE of tasks/constants.py: the job-id pattern, the canonical
\* hex-with-hyphens form, matched up to the end of the text.
UUID_RE == [groups |-> <<8, 4, 4, 4, 12>>, sep |-> "-", class |-> HexChars,
            anchored |-> TRUE]

RECURSIVE MatchGroups(_, _, _, _)
\* the position after the groups gs matched at position p of s, or 0
MatchGroups(pat, gs, s, p) ==
    IF gs = << >> THEN p
    ELSE LET n == Head(gs)
             q == p + n
         IN  IF /\ q - 1 <= Len(s)
                /\ \A i \in p..(q - 1) : s[i] \in pat.class
             THEN IF Tail(gs) = << >> THEN q
                  ELSE IF q <= Len(s) /\ s[q] = pat.sep
                       THEN MatchGroups(pat, Tail(gs), s, q + 1)
                       ELSE 0
             ELSE 0

\* re.match(pattern, s): the pattern matches at the START of s
re_match(pat, s) ==
    LET e == MatchGroups(pat, pat.groups, s, 1)
    IN  /\ e # 0
        /\ pat.anchored => e = Len(s) + 1

\* os.path.join(CLOUD_JOBS_DIR, name) + "/" split at os.sep
JobDir(j) == <<"jobs", j, "">>

\* job_uuid.split(os.sep)[-2]
SplitName(job_uuid) == job_uuid[Len(job_uuid) - 1]


(***************************************************************************)
(* Object store.                                                           *)
(***************************************************************************)
\* the metadata tag of job j as assign_jobdir_metadata writes it
JobTag(j) == [pr_number |-> Digits[j], pr_author |-> "author",
              task_name |-> "build", returncode |-> "0"]

\* a prefix is a CommonPrefix of "jobs/" when some key lies under it
Listable(j) == markers[j] # NoObject \/ DOMAIN remote[j] # {}

\* the listable jobs after the continuation token, in key order
ListedAfter(t) == {j \in Jobs : j > t /\ Listable(j)}

RECURSIVE FirstN(_, _)
FirstN(S, n) ==
    IF n = 0 \/ S = {} THEN << >>
    ELSE LET m == CHOOSE x \in S : \A y \in S : x <= y
         IN  <<m>> \o FirstN(S \ {m}, n - 1)

\* a listing that is taken to fit on one page
ListFirstPage(t) ==
    LET page == FirstN(ListedAfter(t), PageSize)
    IN  [prefixes |-> [i \in 1..Len(page) |-> JobDir(page[i])],
         last |-> IF page = << >> THEN t ELSE page[Len(page)],
         truncated |-> FALSE]

\* one page of paginate(Prefix=CLOUD_JOBS_DIR, Delimiter='/'):
\* its CommonPrefixes and whether more pages follow
ListPage(t) ==
    LET page == FirstN(ListedAfter(t), PageSize)
    IN  [prefixes |-> [i \in 1..Len(page) |-> JobDir(page[i])],
         last |-> IF page = << >> THEN t ELSE page[Len(page)],
         truncated |-> Cardinality(ListedAfter(t)) > PageSize]

(***************************************************************************)
(* Root aggregation.                                                       *)
(***************************************************************************)
ErrJobList == "Error while getting job directory list"
ErrRootIndex == "Error while creating root index"

\* ThreadPoolExecutor(max_workers=100)
max_workers == 100

\* a future whose call raised: future.result() raises the exception again
Raised(exc) == [raised |-> exc]

\* get_jobdir_metadata with the try/except left out: the store error of
\* head_object leaves the function
get_jobdir_metadata_raising(job_uuid) ==
    LET name == SplitName(job_uuid)
        job == markers[name]
    IN  IF job = NoObject THEN Raised("ClientError")
        ELSE IF re_match(UUID_RE, NameText(name))
             THEN [name |-> name,
                   mtime |-> job.LastModified,
                   pr_number |-> DictGet(job.Metadata, "pr_number"),
                   pr_author |-> DictGet(job.Metadata, "pr_author"),
                   task_name |-> DictGet(job.Metadata, "task_name"),
                   returncode |-> DictGet(job.Metadata, "returncode")]
             ELSE NoneObj

\* get_jobdir_metadata without the name check
get_jobdir_metadata_unchecked(job_uuid) ==
    LET name == SplitName(job_uuid)
        job == markers[name]
    IN  IF job = NoObject THEN NoneObj
        ELSE [name |-> name,
              mtime |-> job.LastModified,
              pr_number |-> DictGet(job.Metadata, "pr_number"),
              pr_author |-> DictGet(job.Metadata, "pr_author"),
              task_name |-> DictGet(job.Metadata, "task_name"),
              returncode |-> DictGet(job.Metadata, "returncode")]

\* get_jobdir_metadata: head_object on the job-root key; a ClientError (the
\* key is absent) is swallowed and None returned, as for a name that fails
\* the format check
get_jobdir_metadata(job_uuid) ==
    LET name == SplitName(job_uuid)
        job == markers[name]
    IN  IF job = NoObject THEN NoneObj
        ELSE IF re_match(UUID_RE, NameText(name))
             THEN [name |-> name,
                   mtime |-> job.LastModified,
                   pr_number |-> DictGet(job.Metadata, "pr_number"),
                   pr_author |-> DictGet(job.Metadata, "pr_author"),
                   task_name |-> DictGet(job.Metadata, "task_name"),
                   returncode |-> DictGet(job.Metadata, "returncode")]
             ELSE NoneObj

\* [obj for obj in objects if obj is not None]
NotNone(objs) == SelectSeq(objs, LAMBDA o : o # NoneObj)

RECURSIVE InsertDesc(_, _)
\* x put behind every element whose mtime is not smaller
InsertDesc(x, s) ==
    IF s = << >> THEN <<x>>
    ELSE IF Head(s).mtime >= x.mtime THEN <<Head(s)>> \o InsertDesc(x, Tail(s))
         ELSE <<x>> \o s

RECURSIVE InsertAsc(_, _)
InsertAsc(x, s) ==
    IF s = << >> THEN <<x>>
    ELSE IF Head(s).mtime <= x.mtime THEN <<Head(s)>> \o InsertAsc(x, Tail(s))
         ELSE <<x>> \o s

RECURSIVE SortAsc(_, _)
SortAsc(objs, acc) ==
    IF objs = << >> THEN acc
    ELSE SortAsc(Tail(objs), InsertAsc(Head(objs), acc))

RECURSIVE SortDesc(_, _)
\* the elements of objs inserted one by one, in their order
SortDesc(objs, acc) ==
    IF objs = << >> THEN acc
    ELSE SortDesc(Tail(objs), InsertDesc(Head(objs), acc))

\* sorted(...) with reverse=True left out
sorted_ascending(objs) == SortAsc(objs, << >>)

\* sorted(objects, key=lambda k: k['mtime'], reverse=True): a stable sort
sorted(objs) == SortDesc(objs, << >>)

\* generate_index: the template chosen and the context it is rendered from
generate_index(obj_data, is_root) ==
    [template |-> IF is_root THEN "root_index_template.html"
                             ELSE "index_template.html",
     obj_data |-> obj_data]

\* CreateRootIndex._run with the owner test left out
CreateRootIndex_run_any_owner ==
    /\ agg_pc = "pending"
    /\ agg_pc' = "listing"
    /\ agg_start' = [time |-> now, readable |-> {j \in Jobs : markers[j] # NoObject}]
    /\ UNCHANGED <<repo_owner, token, todo, futures, objects, logged, prev>>
    /\ UNCHANGED storeVars
    /\ UNCHANGED upVars
    /\ UNCHANGED poolVars

\* CreateRootIndex._run: only jobs of the "freeipa" repository are listed
CreateRootIndex_run ==
    /\ agg_pc = "pending"
    /\ agg_pc' = IF repo_owner = "freeipa" THEN "listing" ELSE "done"
    /\ agg_start' = [time |-> now, readable |-> {j \in Jobs : markers[j] # NoObject}]
    /\ UNCHANGED <<repo_owner, token, todo, futures, objects, logged, prev>>
    /\ UNCHANGED storeVars
    /\ UNCHANGED upVars
    /\ UNCHANGED poolVars

\* get_jobs, one page: every prefix of the page is yielded and submitted to
\* the executor (lines 90-92)
get_jobs_page ==
    /\ agg_pc = "listing"
    /\ LET page == ListPage(token)
       IN  /\ todo' = todo \o page.prefixes
           /\ futures' = futures \o
                  [i \in 1..Len(page.prefixes) |-> [st |-> "queued", res |-> NoneObj]]
           /\ token' = page.last
           /\ agg_pc' = IF page.truncated THEN "listing" ELSE "collect"
    /\ UNCHANGED <<repo_owner, objects, logged, agg_start, prev>>
    /\ UNCHANGED storeVars
    /\ UNCHANGED upVars
    /\ UNCHANGED poolVars

\* get_jobs: the request for a page fails; the generator logs the error and
\* ends, and the loop of create_jobs_root_index ends with it
get_jobs_ClientError ==
    /\ agg_pc = "listing"
    /\ logged' = logged \cup {ErrJobList}
    /\ agg_pc' = "collect"
    /\ UNCHANGED <<repo_owner, token, todo, futures, objects, agg_start, prev>>
    /\ UNCHANGED storeVars
    /\ UNCHANGED upVars
    /\ UNCHANGED poolVars

InFlight == {i \in 1..Len(futures) : futures[i].st = "running"}

\* a worker of the pool takes the oldest queued call
worker_start(i) ==
    /\ agg_pc \in {"listing", "collect"}
    /\ futures[i].st = "queued"
    /\ \A k \in 1..(i - 1) : futures[k].st # "queued"
    /\ Cardinality(InFlight) < max_workers
    /\ futures' = [futures EXCEPT ![i].st = "running"]
    /\ UNCHANGED <<repo_owner, agg_pc, token, todo, objects, logged, agg_start, prev>>
    /\ UNCHANGED storeVars
    /\ UNCHANGED upVars
    /\ UNCHANGED poolVars

\* the call get_jobdir_metadata(job) of a worker returns
worker_finish(i) ==
    /\ agg_pc \in {"listing", "collect"}
    /\ futures[i].st = "running"
    /\ futures' = [futures EXCEPT ![i] =
                      [st |-> "done", res |-> get_jobdir_metadata(todo[i])]]
    /\ UNCHANGED <<repo_owner, agg_pc, token, todo, objects, logged, agg_start, prev>>
    /\ UNCHANGED storeVars
    /\ UNCHANGED upVars
    /\ UNCHANGED poolVars

\* as_completed with "objects = [res]" in place of the append
as_completed_overwrite(i) ==
    /\ agg_pc = "collect"
    /\ futures[i].st = "done"
    /\ futures' = [futures EXCEPT ![i].st = "collected"]
    /\ objects' = <<futures[i].res>>
    /\ UNCHANGED <<repo_owner, agg_pc, token, todo, logged, agg_start, prev>>
    /\ UNCHANGED storeVars
    /\ UNCHANGED upVars
    /\ UNCHANGED poolVars

\* lines 93-95: a completed future is taken and its result appended; a
\* result that is an exception is raised by future.result() and ends the
\* function in its handler (line 105)
as_completed(i) ==
    /\ agg_pc = "collect"
    /\ futures[i].st = "done"
    /\ futures' = [futures EXCEPT ![i].st = "collected"]
    /\ IF "raised" \in DOMAIN futures[i].res
       THEN /\ logged' = logged \cup {ErrRootIndex}
            /\ agg_pc' = "done"
            /\ UNCHANGED objects
       ELSE /\ objects' = Append(objects, futures[i].res)
            /\ UNCHANGED <<agg_pc, logged>>
    /\ UNCHANGED <<repo_owner, token, todo, agg_start, prev>>
    /\ UNCHANGED storeVars
    /\ UNCHANGED upVars
    /\ UNCHANGED poolVars

Joined == \A i \in 1..Len(futures) : futures[i].st = "collected"

\* the document of lines 98-102
RootDocument == generate_index([objects |-> sorted(NotNone(objects))], TRUE)

\* lines 98-104 entered without waiting for the fetches still under way
put_root_index_early ==
    /\ agg_pc = "collect"
    /\ rootIndex' = [Body |-> RootDocument, LastModified |-> now + 1,
                     ContentEncoding |-> "utf-8", ContentType |-> "text/html"]
    /\ now' = now + 1
    /\ agg_pc' = "done"
    /\ UNCHANGED <<repo_owner, token, todo, futures, objects, logged, agg_start, prev>>
    /\ UNCHANGED <<markers, remote>>
    /\ UNCHANGED upVars
    /\ UNCHANGED poolVars

\* lines 98-104: filter, sort, render and put the root index
put_root_index ==
    /\ agg_pc = "collect"
    /\ Joined
    /\ rootIndex' = [Body |-> RootDocument, LastModified |-> now + 1,
                     ContentEncoding |-> "utf-8", ContentType |-> "text/html"]
    /\ now' = now + 1
    /\ agg_pc' = "done"
    /\ UNCHANGED <<repo_owner, token, todo, futures, objects, logged, agg_start, prev>>
    /\ UNCHANGED <<markers, remote>>
    /\ UNCHANGED upVars
    /\ UNCHANGED poolVars

\* lines 102-107: the put fails with a store error, which is logged
put_root_index_ClientError ==
    /\ agg_pc = "collect"
    /\ Joined
    /\ logged' = logged \cup {ErrRootIndex}
    /\ agg_pc' = "done"
    /\ UNCHANGED <<repo_owner, token, todo, futures, objects, agg_start, prev>>
    /\ UNCHANGED storeVars
    /\ UNCHANGED upVars
    /\ UNCHANGED poolVars

AggNext ==
    \/ CreateRootIndex_run
    \/ get_jobs_page
    \/ get_jobs_ClientError
    \/ \E i \in 1..Len(futures) : worker_start(i)
    \/ \E i \in 1..Len(futures) : worker_finish(i)
    \/ \E i \in 1..Len(futures) : as_completed(i)
    \/ put_root_index
    \/ put_root_index_ClientError

(***************************************************************************)
(* Initial states.                                                         *)
(***************************************************************************)
\* an artifact stored under a job prefix
SomeObject == [enc |-> "none", size |-> 1, time |-> 1]
SomeFiles == <<<<"a", "txt">>>> :> SomeObject
NoFiles == << >>

\* what can be found under a job prefix: the files of an upload that has not
\* been tagged yet, a directory that is no job (an old marker without
\* metadata), or a published job
PrefixKinds ==
    {<<"untagged", 0>>, <<"rogue", 1>>} \cup ({"tagged"} \X (1..MaxTime))

MarkerOf(j, k) ==
    IF k[1] = "untagged" THEN NoObject
    ELSE [Body |-> "", LastModified |-> k[2],
          Metadata |-> IF k[1] = "rogue" THEN EmptyMeta ELSE JobTag(j)]

FilesOf(k) == IF k[1] = "rogue" THEN NoFiles ELSE SomeFiles

OldRootIndex ==
    [Body |-> generate_index([objects |-> << >>], TRUE), LastModified |-> 1,
     ContentEncoding |-> "utf-8", ContentType |-> "text/html"]

\* one CreateRootIndex task, not yet run, of either kind of owner, before a
\* store holding MaxJobs prefixes; no upload task
InitAgg ==
    /\ \E kinds \in [Jobs -> PrefixKinds] :
          /\ markers = [j \in Jobs |-> MarkerOf(j, kinds[j])]
          /\ remote = [j \in Jobs |-> FilesOf(kinds[j])]
    /\ rootIndex \in {NoObject, OldRootIndex}
    /\ now = MaxTime
    /\ repo_owner \in {"freeipa", "a-fork-owner"}
    /\ agg_pc = "pending"
    /\ token = 0
    /\ todo = << >>
    /\ futures = << >>
    /\ objects = << >>
    /\ logged = {}
    /\ agg_start = [time |-> 0, readable |-> {}]
    /\ prev = << >>
    /\ pool = [total |-> 0, submitted |-> 0, running |-> 0, finished |-> 0]
    /\ up_args = NoneObj
    /\ up_self = NoneObj
    /\ up_state = "new"
    /\ up_pc = "none"
    /\ fs = << >>
    /\ written = << >>
    /\ sent = [plain |-> {}, gz |-> {}]
    /\ runs = 0
    /\ up_exc = PyNone
    /\ calls = << >>

\* one CreateRootIndex task against a store that does not change
SpecAgg == InitAgg /\ [][AggNext]_vars

(***************************************************************************)
(* Local job tree.  A name is the sequence of its dot-separated parts, a   *)
(* path the sequence of names below JOBS_DIR/<uuid>; fs maps the paths of  *)
(* the tree (the job directory is << >>) to their stat data.               *)
(***************************************************************************)
\* number of artifact files a job tree may hold
MaxFiles == 3
\* number of CloudUpload tasks run for the job (the first and its retries)
MaxRuns == 2

INDEX == <<"index", "html">>
SUB == <<"sub">>

\* the artifacts a job may leave: plain and pre-compressed files, at the top
\* and in a sub-directory
FilePool == << <<<<"a", "txt">>>>, <<<<"b", "log", "gz">>>>, <<SUB, <<"c", "gz">>>>,
               <<SUB, <<"d", "txt">>>>, <<<<"e", "png">>>> >>

\* the order in which a directory lists its entries
NameOrder == <<SUB, <<"a", "txt">>, <<"b", "log", "gz">>, <<"c", "gz">>,
               <<"d", "txt">>, <<"e", "png">>, INDEX>>

NameRank(n) == CHOOSE i \in 1..Len(NameOrder) : NameOrder[i] = n

Last(p) == p[Len(p)]
Parent(p) == SubSeq(p, 1, Len(p) - 1)

\* the tree that holds the artifacts F, all written at time 1
TreeOf(F) ==
    LET dirs == {<< >>} \cup {Parent(p) : p \in F}
    IN  [p \in dirs \cup F |->
            IF p \in F THEN [type |-> "file", mtime |-> 1, size |-> 1]
                       ELSE [type |-> "dir", mtime |-> 1, size |-> 0]]

\* the entries of directory d with the given type, as os.walk lists them
Entries_(f, d, type) ==
    {p \in DOMAIN f : Len(p) = Len(d) + 1 /\ Parent(p) = d /\ f[p].type = type}

RECURSIVE Listed(_)
\* a set of paths of one directory in listing order
Listed(S) ==
    IF S = {} THEN << >>
    ELSE LET m == CHOOSE x \in S : \A y \in S : NameRank(Last(x)) <= NameRank(Last(y))
         IN  <<m>> \o Listed(S \ {m})

RECURSIVE WalkDirs(_, _)
RECURSIVE WalkEach(_, _)
\* os.walk(job_dir): the directories below and including d, parents first
WalkDirs(f, d) == <<d>> \o WalkEach(f, Listed(Entries_(f, d, "dir")))
WalkEach(f, ds) ==
    IF ds = << >> THEN << >> ELSE WalkDirs(f, Head(ds)) \o WalkEach(f, Tail(ds))

\* make_object: the stat data of one entry
make_object(f, p) ==
    [name |-> Last(p), mtime |-> f[p].mtime, size |-> f[p].size, type |-> f[p].type]

\* list(make_objects(root, dirs + files))
make_objects(f, d) ==
    LET ps == Listed(Entries_(f, d, "dir")) \o Listed(Entries_(f, d, "file"))
    IN  [i \in 1..Len(ps) |-> make_object(f, ps[i])]

\* make_aws_data
make_aws_data(remote_path, uuid, pr_number, pr_author, task_name, returncode, objs) ==
    [remote_path |-> remote_path, uuid |-> uuid, pr_number |-> pr_number,
     pr_author |-> pr_author, task_name |-> task_name,
     returncode |-> returncode, objects |-> objs]

\* st_size of a written index document: it grows with the rows of the
\* listing, which the model counts
DocSize(doc) == Len(doc.obj_data.objects)

\* write_index(data, path): index.html of directory d is created or
\* overwritten at time t; creating it changes the directory
write_index(f, d, doc, t) ==
    LET ix == d \o <<INDEX>>
        new == [type |-> "file", mtime |-> t, size |-> DocSize(doc)]
    IN  IF ix \in DOMAIN f
        THEN [f EXCEPT ![ix] = new]
        ELSE [p \in DOMAIN f \cup {ix} |->
                 IF p = ix THEN new
                 ELSE IF p = d THEN [f[p] EXCEPT !.mtime = t]
                 ELSE f[p]]

RECURSIVE VisitDirs(_, _, _)
\* the loop of create_local_indeces over the directories ds, from the state
\* st = [fs, now, docs]: the directory is listed, then its index is written
VisitDirs(self, ds, st) ==
    IF ds = << >> THEN st
    ELSE LET d == Head(ds)
             data == make_aws_data(<<self.uuid>> \o d, self.uuid, self.pr_number,
                                   self.pr_author, self.task_name,
                                   self.returncode, make_objects(st.fs, d))
             doc == generate_index(data, FALSE)
         IN  VisitDirs(self, Tail(ds),
                       [fs |-> write_index(st.fs, d, doc, st.now + 1),
                        now |-> st.now + 1,
                        docs |-> (d :> doc) @@ st.docs])

\* create_local_indeces(uuid, pr_number, pr_author, task_name, returncode):
\* the tree, the clock and the documents written, after the walk
create_local_indeces(self, f, t) ==
    VisitDirs(self, WalkDirs(f, << >>), [fs |-> f, now |-> t, docs |-> << >>])

(***************************************************************************)
(* aws s3 sync.                                                            *)
(***************************************************************************)
\* fnmatch of a path against the patterns the task uses
FnMatch(pat, p) ==
    IF pat = "*" THEN TRUE
    ELSE \* "*.gz"
         Len(Last(p)) >= 2 /\ Last(p)[Len(Last(p))] = "gz"

RECURSIVE Filtered(_, _, _)
\* --include/--exclude: filters apply in order, a later one takes precedence
Filtered(filters, p, included) ==
    IF filters = << >> THEN included
    ELSE Filtered(Tail(filters), p,
                  IF FnMatch(Head(filters).pat, p) THEN Head(filters).include
                                                   ELSE included)

\* sync_all_except_gz with the exclusion left out
sync_all == [filters |-> <<[include |-> TRUE, pat |-> "*"]>>, enc |-> "none"]

\* ['--include=*', '--exclude=*.gz']
sync_all_except_gz ==
    [filters |-> <<[include |-> TRUE, pat |-> "*"], [include |-> FALSE, pat |-> "*.gz"]>>,
     enc |-> "none"]

\* ['--exclude=*', '--include=*.gz', '--content-encoding=gzip']
sync_gz ==
    [filters |-> <<[include |-> FALSE, pat |-> "*"], [include |-> TRUE, pat |-> "*.gz"]>>,
     enc |-> "gzip"]

\* the files of the tree the pass selects
Selected(pass, f) ==
    {p \in DOMAIN f : f[p].type = "file" /\ Filtered(pass.filters, p, TRUE)}

\* sync copies a file that is new, or differs in size, or is newer than the
\* stored copy
NeedsTransfer(f, stored, p) ==
    \/ p \notin DOMAIN stored
    \/ stored[p].size # f[p].size
    \/ f[p].mtime > stored[p].time

ToTransfer(pass, f, stored) == {p \in Selected(pass, f) : NeedsTransfer(f, stored, p)}

\* the prefix after the files T have been copied at time t
Transfer(pass, f, stored, T, t) ==
    [p \in DOMAIN stored \cup T |->
        IF p \in T THEN [enc |-> pass.enc, size |-> f[p].size, time |-> t]
                   ELSE stored[p]]

(***************************************************************************)
(* The upload task.                                                        *)
(***************************************************************************)
\* the texts given as uuid: the names of the jobs, and for the other
\* arguments the empty text, a canonical id followed by a character, a
\* canonical id after a character, and an id with a letter that is no hex digit
ArgText(u) ==
    CASE u \in Jobs -> NameText(u)
      [] u = 0 -> << >>
      [] u = -1 -> UuidOf("1") \o <<"x">>
      [] u = -2 -> <<"x">> \o UuidOf("1")
      [] OTHER -> UuidOf("g")

UuidArgs == Jobs \cup {0, -1, -2, -3}

\* a call made by _run and whether it returned (TRUE) or raised (FALSE)
Called(name, ok) == [call |-> name, ok |-> ok]

\* str(x)
PyStr(x) == IF x = PyNone THEN "None" ELSE x

\* the attributes CloudUpload.__init__ sets (lines 246-251): "not None" is
\* true, so each conditional expression takes its first branch
Attributes(args) ==
    [uuid |-> args.uuid,
     repo_owner |-> args.repo_owner,
     pr_number |-> PyStr(args.pr_number),
     pr_author |-> args.pr_author,
     task_name |-> args.task_name,
     returncode |-> PyStr(args.returncode)]

\* CloudUpload.__init__ with the uuid test left out
CloudUpload_init_unchecked ==
    /\ up_state = "new"
    /\ up_self' = Attributes(up_args)
    /\ up_state' = "pending"
    /\ UNCHANGED <<up_args, up_pc, fs, written, sent, runs, up_exc, calls>>
    /\ UNCHANGED storeVars
    /\ UNCHANGED aggVars
    /\ UNCHANGED poolVars

\* CloudUpload.__init__: TaskException for a uuid that fails the format
\* check, before anything else is done
CloudUpload_init ==
    /\ up_state = "new"
    /\ IF ~re_match(UUID_RE, ArgText(up_args.uuid))
       THEN /\ up_state' = "rejected"
            /\ UNCHANGED up_self
       ELSE /\ up_self' = Attributes(up_args)
            /\ up_state' = "pending"
    /\ UNCHANGED <<up_args, up_pc, fs, written, sent, runs, up_exc, calls>>
    /\ UNCHANGED storeVars
    /\ UNCHANGED aggVars
    /\ UNCHANGED poolVars

\* run() of a task that may be run again after it has ended
run_create_local_indeces_rerun ==
    /\ up_state \in {"pending", "succeeded", "failed"}
    /\ runs < MaxRuns
    /\ LET r == create_local_indeces(up_self, fs, now)
       IN  /\ fs' = r.fs
           /\ now' = r.now
           /\ written' = Append(written, r.docs)
    /\ up_state' = "running"
    /\ up_pc' = "sync_all_except_gz"
    /\ runs' = runs + 1
    /\ sent' = [plain |-> {}, gz |-> {}]
    /\ calls' = <<Called("create_local_indeces", TRUE)>>
    /\ UNCHANGED <<up_args, up_self, up_exc>>
    /\ UNCHANGED <<markers, remote, rootIndex>>
    /\ UNCHANGED aggVars
    /\ UNCHANGED poolVars

\* run() enters _run, lines 254-255: the local indices are written
run_create_local_indeces ==
    /\ up_state = "pending"
    /\ LET r == create_local_indeces(up_self, fs, now)
       IN  /\ fs' = r.fs
           /\ now' = r.now
           /\ written' = Append(written, r.docs)
    /\ up_state' = "running"
    /\ up_pc' = "sync_all_except_gz"
    /\ runs' = runs + 1
    /\ sent' = [plain |-> {}, gz |-> {}]
    /\ calls' = <<Called("create_local_indeces", TRUE)>>
    /\ UNCHANGED <<up_args, up_self, up_exc>>
    /\ UNCHANGED <<markers, remote, rootIndex>>
    /\ UNCHANGED aggVars
    /\ UNCHANGED poolVars

\* a pass that also puts an empty object at the key of the job directory
SyncDone_marking(pass, key, next) ==
    LET T == ToTransfer(pass, fs, remote[up_self.uuid])
    IN  /\ remote' = [remote EXCEPT ![up_self.uuid] = Transfer(pass, fs, @, T, now + 1)]
        /\ markers' = [markers EXCEPT ![up_self.uuid] =
                          IF @ = NoObject
                          THEN [Body |-> "", LastModified |-> now + 1,
                                Metadata |-> EmptyMeta]
                          ELSE @]
        /\ now' = now + 1
        /\ sent' = [sent EXCEPT ![key] = T]
        /\ up_pc' = next
        /\ calls' = Append(calls, Called(up_pc, TRUE))
        /\ UNCHANGED <<up_args, up_self, up_state, fs, written, runs, up_exc>>
        /\ UNCHANGED rootIndex
        /\ UNCHANGED aggVars
        /\ UNCHANGED poolVars

\* execute_subtask(PopenTask(aws_sync_cmd + ...)) returns: the pass has
\* copied what it had to; sync puts the files of the tree, and no object for
\* a directory
SyncDone(pass, key, next) ==
    LET T == ToTransfer(pass, fs, remote[up_self.uuid])
    IN  /\ remote' = [remote EXCEPT ![up_self.uuid] = Transfer(pass, fs, @, T, now + 1)]
        /\ now' = now + 1
        /\ sent' = [sent EXCEPT ![key] = T]
        /\ up_pc' = next
        /\ calls' = Append(calls, Called(up_pc, TRUE))
        /\ UNCHANGED <<up_args, up_self, up_state, fs, written, runs, up_exc>>
        /\ UNCHANGED <<markers, rootIndex>>
        /\ UNCHANGED aggVars
        /\ UNCHANGED poolVars

\* the command fails after copying a part of the files: the error leaves
\* _run and the task has failed
SyncFailed(pass, key) ==
    LET T == ToTransfer(pass, fs, remote[up_self.uuid])
    IN  \E part \in SUBSET T :
            /\ part # T \/ T = {}
            /\ remote' = [remote EXCEPT ![up_self.uuid] =
                                     Transfer(pass, fs, @, part, now + 1)]
            /\ now' = now + 1
            /\ sent' = [sent EXCEPT ![key] = part]
            /\ up_state' = "failed"
            /\ up_exc' = "TaskException"
            /\ up_pc' = "end"
            /\ calls' = Append(calls, Called(up_pc, FALSE))
            /\ UNCHANGED <<up_args, up_self, fs, written, runs>>
            /\ UNCHANGED <<markers, rootIndex>>
            /\ UNCHANGED aggVars
            /\ UNCHANGED poolVars

\* line 266 followed at once by the tag, line 267 left out
run_sync_all_except_gz_then_tag ==
    /\ up_state = "running" /\ up_pc = "sync_all_except_gz"
    /\ SyncDone(sync_all_except_gz, "plain", "assign_jobdir_metadata")

\* line 266
run_sync_all_except_gz ==
    /\ up_state = "running" /\ up_pc = "sync_all_except_gz"
    /\ SyncDone(sync_all_except_gz, "plain", "sync_gz")

\* line 266 with the failure of the command ignored: _run goes on
run_sync_all_except_gz_ignored ==
    /\ up_state = "running" /\ up_pc = "sync_all_except_gz"
    /\ LET T == ToTransfer(sync_all_except_gz, fs, remote[up_self.uuid])
       IN  \E part \in SUBSET T :
               /\ part # T \/ T = {}
               /\ remote' = [remote EXCEPT ![up_self.uuid] =
                                 Transfer(sync_all_except_gz, fs, @, part, now + 1)]
               /\ sent' = [sent EXCEPT !["plain"] = part]
    /\ now' = now + 1
    /\ up_pc' = "sync_gz"
    /\ calls' = Append(calls, Called(up_pc, FALSE))
    /\ UNCHANGED <<up_args, up_self, up_state, fs, written, runs, up_exc>>
    /\ UNCHANGED <<markers, rootIndex>>
    /\ UNCHANGED aggVars
    /\ UNCHANGED poolVars

\* line 266: the command fails
run_sync_all_except_gz_failed ==
    /\ up_state = "running" /\ up_pc = "sync_all_except_gz"
    /\ SyncFailed(sync_all_except_gz, "plain")

\* line 267
run_sync_gz ==
    /\ up_state = "running" /\ up_pc = "sync_gz"
    /\ SyncDone(sync_gz, "gz", "assign_jobdir_metadata")

\* line 267: the command fails
run_sync_gz_failed ==
    /\ up_state = "running" /\ up_pc = "sync_gz"
    /\ SyncFailed(sync_gz, "gz")

\* assign_jobdir_metadata that keeps the values an existing tag holds
assign_jobdir_metadata_keeping(uuid, pr_number, pr_author, task_name, returncode) ==
    LET old == markers[SplitName(JobDir(uuid))]
        new == [pr_number |-> pr_number, pr_author |-> pr_author,
                task_name |-> task_name, returncode |-> returncode]
    IN  [markers EXCEPT ![SplitName(JobDir(uuid))] =
            [Body |-> "", LastModified |-> now + 1,
             Metadata |-> IF old = NoObject THEN new
                          ELSE [k \in DOMAIN new |->
                                   IF k \in DOMAIN old.Metadata THEN old.Metadata[k]
                                                                ELSE new[k]]]]

\* assign_jobdir_metadata: the object put at the key of the job directory,
\* with an empty body and the four values as its metadata
assign_jobdir_metadata(uuid, pr_number, pr_author, task_name, returncode) ==
    [markers EXCEPT ![SplitName(JobDir(uuid))] =
        [Body |-> "", LastModified |-> now + 1,
         Metadata |-> [pr_number |-> pr_number, pr_author |-> pr_author,
                       task_name |-> task_name, returncode |-> returncode]]]

\* lines 269-271, and the end of _run: the task has succeeded
run_assign_jobdir_metadata ==
    /\ up_state = "running" /\ up_pc = "assign_jobdir_metadata"
    /\ markers' = assign_jobdir_metadata(up_self.uuid, up_self.pr_number,
                                         up_self.pr_author, up_self.task_name,
                                         up_self.returncode)
    /\ now' = now + 1
    /\ up_state' = "succeeded"
    /\ up_pc' = "end"
    /\ calls' = Append(calls, Called("assign_jobdir_metadata", TRUE))
    /\ UNCHANGED <<up_args, up_self, fs, written, sent, runs, up_exc>>
    /\ UNCHANGED <<remote, rootIndex>>
    /\ UNCHANGED aggVars
    /\ UNCHANGED poolVars

\* lines 272-273: the put fails, RuntimeError leaves _run
run_assign_jobdir_metadata_failed ==
    /\ up_state = "running" /\ up_pc = "assign_jobdir_metadata"
    /\ up_state' = "failed"
    /\ up_exc' = "RuntimeError"
    /\ up_pc' = "end"
    /\ calls' = Append(calls, Called("assign_jobdir_metadata", FALSE))
    /\ UNCHANGED <<up_args, up_self, fs, written, sent, runs>>
    /\ UNCHANGED storeVars
    /\ UNCHANGED aggVars
    /\ UNCHANGED poolVars

\* the caller runs the upload of the job once more, with a new task
CloudUpload_again ==
    /\ up_state \in {"succeeded", "failed"}
    /\ runs < MaxRuns
    /\ up_state' = "new"
    /\ up_self' = NoneObj
    /\ up_pc' = "none"
    /\ up_exc' = PyNone
    /\ calls' = << >>
    /\ UNCHANGED <<up_args, fs, written, sent, runs>>
    /\ UNCHANGED storeVars
    /\ UNCHANGED aggVars
    /\ UNCHANGED poolVars

\* the construction and the run of one CloudUpload task
UploadOnce ==
    \/ CloudUpload_init
    \/ run_create_local_indeces
    \/ run_sync_all_except_gz
    \/ run_sync_all_except_gz_failed
    \/ run_sync_gz
    \/ run_sync_gz_failed
    \/ run_assign_jobdir_metadata
    \/ run_assign_jobdir_metadata_failed

UploadNext ==
    \/ UploadOnce
    \/ CloudUpload_again

\* the artifacts of the job tree, none of them an index
Artifacts == {FilePool[i] : i \in 1..MaxFiles}

\* a CloudUpload task about to be constructed, for a job tree holding any of
\* the artifacts and no index yet, before a store without the job; no
\* aggregation
InitUpload ==
    /\ markers = [j \in Jobs |-> NoObject]
    /\ remote = [j \in Jobs |-> NoFiles]
    /\ rootIndex = NoObject
    /\ now = 1
    /\ repo_owner = "freeipa"
    /\ agg_pc = "pending"
    /\ token = 0
    /\ todo = << >>
    /\ futures = << >>
    /\ objects = << >>
    /\ logged = {}
    /\ agg_start = [time |-> 0, readable |-> {}]
    /\ prev = << >>
    /\ pool = [total |-> 0, submitted |-> 0, running |-> 0, finished |-> 0]
    /\ up_args \in [uuid : UuidArgs, pr_number : {PyNone, "7"}, task_name : {"build"},
                    repo_owner : {"freeipa"}, pr_author : {"author"},
                    returncode : {"0"}]
    /\ up_self = NoneObj
    /\ up_state = "new"
    /\ up_pc = "none"
    /\ \E F \in SUBSET Artifacts : fs = TreeOf(F)
    /\ written = << >>
    /\ sent = [plain |-> {}, gz |-> {}]
    /\ runs = 0
    /\ up_exc = PyNone
    /\ calls = << >>

\* the upload of one job, with its retries
SpecUpload == InitUpload /\ [][UploadNext]_vars

(***************************************************************************)
(* The tagging of job directories, call by call.                           *)
(***************************************************************************)
\* number of calls of assign_jobdir_metadata
MaxTags == 2

\* the values a call is given: those of two pull requests
TagArgs == {[pr_number |-> n, pr_author |-> "author", task_name |-> "build",
             returncode |-> "0"] : n \in {"7", "8"}}

\* assign_jobdir_metadata is called for a job, as _run calls it
tag_job ==
    /\ Len(calls) < MaxTags
    /\ \E u \in {j \in Jobs : re_match(UUID_RE, NameText(j))} : \E a \in TagArgs :
          /\ markers' = assign_jobdir_metadata(u, a.pr_number, a.pr_author,
                                               a.task_name, a.returncode)
          /\ calls' = Append(calls, [call |-> "assign_jobdir_metadata", ok |-> TRUE,
                                     uuid |-> u, metadata |-> a])
    /\ now' = now + 1
    /\ UNCHANGED <<remote, rootIndex>>
    /\ UNCHANGED <<up_args, up_self, up_state, up_pc, fs, written, sent, runs, up_exc>>
    /\ UNCHANGED aggVars
    /\ UNCHANGED poolVars

\* any store of MaxJobs prefixes, before the first call
InitTag ==
    /\ \E kinds \in [Jobs -> PrefixKinds] :
          /\ markers = [j \in Jobs |-> MarkerOf(j, kinds[j])]
          /\ remote = [j \in Jobs |-> FilesOf(kinds[j])]
    /\ rootIndex \in {NoObject, OldRootIndex}
    /\ now = MaxTime
    /\ repo_owner = "freeipa"
    /\ agg_pc = "pending"
    /\ token = 0
    /\ todo = << >>
    /\ futures = << >>
    /\ objects = << >>
    /\ logged = {}
    /\ agg_start = [time |-> 0, readable |-> {}]
    /\ prev = << >>
    /\ pool = [total |-> 0, submitted |-> 0, running |-> 0, finished |-> 0]
    /\ up_args = NoneObj
    /\ up_self = NoneObj
    /\ up_state = "new"
    /\ up_pc = "none"
    /\ fs = << >>
    /\ written = << >>
    /\ sent = [plain |-> {}, gz |-> {}]
    /\ runs = 0
    /\ up_exc = PyNone
    /\ calls = << >>

SpecTag == InitTag /\ [][tag_job]_vars

(***************************************************************************)
(* The worker pool of a pass over many prefixes.  The calls are alike, so   *)
(* the pool is described by how many of them are in each state.            *)
(***************************************************************************)
\* the largest number of prefixes listed
MaxPrefixes == 102

\* the calls submitted that no worker has taken yet
Queued == pool.submitted - pool.running - pool.finished

\* line 91: the next prefix listed is submitted to the executor
pool_submit ==
    /\ pool.submitted < pool.total
    /\ pool' = [pool EXCEPT !.submitted = @ + 1]
    /\ UNCHANGED storeVars
    /\ UNCHANGED aggVars
    /\ UNCHANGED upVars

\* an executor that starts a thread for every call submitted
pool_start_unbounded ==
    /\ Queued > 0
    /\ pool' = [pool EXCEPT !.running = @ + 1]
    /\ UNCHANGED storeVars
    /\ UNCHANGED aggVars
    /\ UNCHANGED upVars

\* a worker takes a queued call; the executor has max_workers workers
pool_start ==
    /\ Queued > 0
    /\ pool.running < max_workers
    /\ pool' = [pool EXCEPT !.running = @ + 1]
    /\ UNCHANGED storeVars
    /\ UNCHANGED aggVars
    /\ UNCHANGED upVars

\* the call of a worker returns and the worker is free again
pool_finish ==
    /\ pool.running > 0
    /\ pool' = [pool EXCEPT !.running = @ - 1, !.finished = @ + 1]
    /\ UNCHANGED storeVars
    /\ UNCHANGED aggVars
    /\ UNCHANGED upVars

PoolNext ==
    \/ pool_submit
    \/ pool_start
    \/ pool_finish

\* a pass that is about to list one prefix, as many prefixes as the pool has
\* workers, or more
InitPool ==
    /\ markers = [j \in Jobs |-> NoObject]
    /\ remote = [j \in Jobs |-> NoFiles]
    /\ rootIndex = NoObject
    /\ now = 1
    /\ repo_owner = "freeipa"
    /\ agg_pc = "listing"
    /\ token = 0
    /\ todo = << >>
    /\ futures = << >>
    /\ objects = << >>
    /\ logged = {}
    /\ agg_start = [time |-> 0, readable |-> {}]
    /\ prev = << >>
    /\ pool \in [total : {1, max_workers, MaxPrefixes}, submitted : {0},
                  running : {0}, finished : {0}]
    /\ up_args = NoneObj
    /\ up_self = NoneObj
    /\ up_state = "new"
    /\ up_pc = "none"
    /\ fs = << >>
    /\ written = << >>
    /\ sent = [plain |-> {}, gz |-> {}]
    /\ runs = 0
    /\ up_exc = PyNone
    /\ calls = << >>

SpecPool == InitPool /\ [][PoolNext]_vars

(***************************************************************************)
(* The pipeline: the first upload of a job and root aggregation passes,    *)
(* run side by side against the same store.                                *)
(***************************************************************************)
\* number of CreateRootIndex tasks run one after the other
MaxPasses == 2

\* the current pass has put the root index
PutByPass == rootIndex # NoObject /\ rootIndex.LastModified > agg_start.time

\* the names of the records of a listing document, in their order
NamesOf(doc) == [k \in 1..Len(doc.obj_data.objects) |-> doc.obj_data.objects[k].name]

\* what a finished pass listed, put and logged
PassSummary ==
    [listed |-> {SplitName(todo[i]) : i \in 1..Len(todo)},
     put |-> PutByPass,
     names |-> IF PutByPass THEN NamesOf(rootIndex.Body) ELSE << >>,
     logged |-> logged]

\* the caller runs the aggregation once more, with a new CreateRootIndex
\* task; what the finished one did is kept
CreateRootIndex_again ==
    /\ agg_pc = "done"
    /\ Len(prev) + 1 < MaxPasses
    /\ prev' = Append(prev, PassSummary)
    /\ agg_pc' = "pending"
    /\ token' = 0
    /\ todo' = << >>
    /\ futures' = << >>
    /\ objects' = << >>
    /\ logged' = {}
    /\ UNCHANGED <<repo_owner, agg_start>>
    /\ UNCHANGED storeVars
    /\ UNCHANGED upVars
    /\ UNCHANGED poolVars

PipelineNext ==
    \/ UploadOnce
    \/ AggNext
    \/ CreateRootIndex_again

\* a CloudUpload task about to be constructed for a job with a plain and a
\* pre-compressed artifact, and a CreateRootIndex task of the canonical
\* owner, before a store that holds one published job
InitPipeline ==
    /\ markers = [j \in Jobs |-> IF j = 3 THEN MarkerOf(j, <<"tagged", 1>>) ELSE NoObject]
    /\ remote = [j \in Jobs |-> IF j = 3 THEN SomeFiles ELSE NoFiles]
    /\ rootIndex = NoObject
    /\ now = 1
    /\ repo_owner = "freeipa"
    /\ agg_pc = "pending"
    /\ token = 0
    /\ todo = << >>
    /\ futures = << >>
    /\ objects = << >>
    /\ logged = {}
    /\ agg_start = [time |-> 0, readable |-> {}]
    /\ prev = << >>
    /\ pool = [total |-> 0, submitted |-> 0, running |-> 0, finished |-> 0]
    /\ up_args = [uuid |-> 1, pr_number |-> "7", task_name |-> "build",
                  repo_owner |-> "freeipa", pr_author |-> "author",
                  returncode |-> "0"]
    /\ up_self = NoneObj
    /\ up_state = "new"
    /\ up_pc = "none"
    /\ fs = TreeOf({FilePool[1], FilePool[2]})
    /\ written = << >>
    /\ sent = [plain |-> {}, gz |-> {}]
    /\ runs = 0
    /\ up_exc = PyNone
    /\ calls = << >>

SpecPipeline == InitPipeline /\ [][PipelineNext]_vars

(***************************************************************************)
(* Properties of the root aggregation.                                     *)
(***************************************************************************)
\* the canonical id format, read off the text: 36 characters, hyphens at
\* positions 9, 14, 19 and 24, hex digits elsewhere
IsCanonicalUUID(s) ==
    /\ Len(s) = 36
    /\ \A i \in 1..36 : IF i \in {9, 14, 19, 24} THEN s[i] = "-"
                                                 ELSE s[i] \in HexChars

\* the pass has put a root index
Published == rootIndex # NoObject /\ rootIndex.LastModified > MaxTime

\* the records of the root index
Entries == rootIndex.Body.obj_data.objects

\* the jobs whose prefixes the pass has listed
ListedJobs == {SplitName(todo[i]) : i \in 1..Len(todo)}

\* the listed jobs with a readable job-root object and a well-formed name
ValidJobs ==
    {j \in ListedJobs : markers[j] # NoObject /\ IsCanonicalUUID(NameText(j))}

\* C1: when the enumeration of the job prefixes fails with a store error,
\* the pass is aborted and the root index object stays as it was before the
\* pass: nothing is put under the root-index key.
C1_ListErrorKeepsRootIndex ==
    ErrJobList \in logged => rootIndex \in {NoObject, OldRootIndex}

\* C2: every entry of the published root listing belongs to a listed prefix
\* whose metadata fetch succeeded and whose name has the job-id format.
C2_EntriesAreValidFetchedJobs ==
    Published =>
        \A k \in 1..Len(Entries) :
            \E i \in 1..Len(todo) :
                LET j == SplitName(todo[i])
                IN  /\ Entries[k].name = j
                    /\ markers[j] # NoObject
                    /\ IsCanonicalUUID(NameText(j))

\* C2: a root index is published from a listing that holds a prefix whose
\* fetch fails, a prefix whose name is ill-formed and a valid job.
C2_Witness ==
    /\ Published
    /\ Len(Entries) >= 1
    /\ \E j \in ListedJobs : markers[j] = NoObject
    /\ \E j \in ListedJobs :
          markers[j] # NoObject /\ ~IsCanonicalUUID(NameText(j))

\* C3: failing fetches and ill-formed names never abort the pass: every
\* result is collected, the pass reaches the put of the root index (which
\* succeeds or fails on its own), and what is published holds the records of
\* all the other listed jobs.
C3_FetchFailureNeverAborts ==
    (agg_pc = "done" /\ repo_owner = "freeipa") =>
        /\ Len(objects) = Len(todo)
        /\ Joined
        /\ Published \/ ErrRootIndex \in logged
        /\ Published =>
              {Entries[k].name : k \in 1..Len(Entries)} = ValidJobs

\* C3: a pass with two failing fetches and a surviving job has published.
C3_Witness ==
    /\ agg_pc = "done"
    /\ Published
    /\ Cardinality({j \in ListedJobs : markers[j] = NoObject}) >= 2
    /\ Len(Entries) = 1

\* C4: the published records are ordered by modification time, newest first.
C4_SortedByMtimeDescending ==
    Published =>
        \A k \in 1..(Len(Entries) - 1) : Entries[k].mtime >= Entries[k + 1].mtime

\* C4: two records were collected oldest first and are published newest first.
C4_Witness ==
    /\ Published
    /\ Len(Entries) = 2
    /\ Entries[1].mtime > Entries[2].mtime
    /\ NotNone(objects) # Entries

\* the record of a valid job, read off the store
RecordOf(j) ==
    [name |-> j,
     mtime |-> markers[j].LastModified,
     pr_number |-> DictGet(markers[j].Metadata, "pr_number"),
     pr_author |-> DictGet(markers[j].Metadata, "pr_author"),
     task_name |-> DictGet(markers[j].Metadata, "task_name"),
     returncode |-> DictGet(markers[j].Metadata, "returncode")]

\* a step of the fan-out and fan-in: listing, a worker, the collection
FetchStep ==
    \/ get_jobs_page
    \/ get_jobs_ClientError
    \/ \E i \in 1..Len(futures) : worker_start(i)
    \/ \E i \in 1..Len(futures) : worker_finish(i)
    \/ \E i \in 1..Len(futures) : as_completed(i)

RECURSIVE FuturesLeft(_)
\* the steps the submitted fetches still have to take
FuturesLeft(fs_) ==
    IF fs_ = << >> THEN 0
    ELSE (CASE Head(fs_).st = "queued" -> 3
            [] Head(fs_).st = "running" -> 2
            [] Head(fs_).st = "done" -> 1
            [] OTHER -> 0) + FuturesLeft(Tail(fs_))

\* the work left before the join
FetchLeft ==
    FuturesLeft(futures)
    + (IF agg_pc = "listing" THEN 4 * (Cardinality(ListedAfter(token)) + 1) ELSE 0)

\* C5: against a store that does not change, the concurrent fetch of a pass
\* completes: until every submitted fetch is joined some step of it can be
\* taken, and every step reduces the work left.  At the join the valid
\* records collected are those of the valid listed jobs, whatever the order
\* in which the workers ran and completed.
C5_FetchCompletesWithSameSet ==
    /\ [](agg_pc = "collect" /\ Joined =>
            {o \in {objects[k] : k \in 1..Len(objects)} : o # NoneObj}
                = {RecordOf(j) : j \in ValidJobs})
    /\ [](agg_pc = "listing" \/ (agg_pc = "collect" /\ ~Joined) => ENABLED FetchStep)
    /\ [][(agg_pc \in {"listing", "collect"} /\ agg_pc' # "done")
              => (FetchLeft' < FetchLeft)]_vars

\* C5: the fetches of a pass completed in an order other than that of their
\* submission.
C5_Witness ==
    /\ agg_pc = "collect"
    /\ Joined
    /\ Len(objects) >= 2
    /\ objects[1] # NoneObj
    /\ objects[2] # NoneObj
    /\ objects[1].name > objects[2].name

\* C6: a CreateRootIndex task of another owner than the canonical one reads
\* and writes nothing: no prefix is listed, no fetch submitted and the root
\* index object is not put.
C6_OtherOwnerIsNoOp ==
    repo_owner # "freeipa" =>
        /\ agg_pc \in {"pending", "done"}
        /\ todo = << >>
        /\ futures = << >>
        /\ logged = {}
        /\ rootIndex \in {NoObject, OldRootIndex}
        /\ now = MaxTime

\* C6: the task of a fork owner has run.
C6_Witness == repo_owner = "a-fork-owner" /\ agg_pc = "done"

\* C9: a prefix whose job-root object carries no metadata tag has no entry
\* in the root listing, and no entry lacks a job metadata field.
C9_NoEntryWithoutMetadata ==
    Published =>
        \A k \in 1..Len(Entries) :
            /\ markers[Entries[k].name].Metadata # EmptyMeta
            /\ Entries[k].pr_number # PyNone
            /\ Entries[k].pr_author # PyNone
            /\ Entries[k].task_name # PyNone
            /\ Entries[k].returncode # PyNone

\* the number of times v occurs in the sequence q
Count(q, v) == Cardinality({k \in 1..Len(q) : q[k] = v})

\* the results of the fetches that have been taken by as_completed
Collected ==
    SelectSeq([i \in 1..Len(futures) |->
                  IF futures[i].st = "collected" THEN futures[i].res ELSE NoObject],
              LAMBDA r : r # NoObject)

\* C16: the root index is filtered, sorted and put only when every
\* submitted fetch has completed and has been collected.  The collection
\* holds the result of each collected fetch exactly once and grows by one
\* result at a time, at its end; once the sort has begun it is not modified,
\* and what is put is the sorted collection without its None results.
C16_JoinBarrier ==
    /\ [][rootIndex' # rootIndex =>
              /\ Len(futures) = Len(todo)
              /\ \A i \in 1..Len(futures) : futures[i].st = "collected"
              /\ Len(objects) = Len(todo)
              /\ objects' = objects
              /\ rootIndex'.Body.obj_data.objects = sorted(NotNone(objects))]_vars
    /\ [](/\ Len(objects) = Len(Collected)
          /\ \A k \in 1..Len(objects) :
                 Count(objects, objects[k]) = Count(Collected, objects[k]))
    /\ [][objects' # objects =>
              /\ agg_pc = "collect"
              /\ Len(objects') = Len(objects) + 1
              /\ SubSeq(objects', 1, Len(objects)) = objects]_vars
    /\ [][agg_pc = "done" => (objects' = objects /\ futures' = futures)]_vars

\* C16: a pass over three prefixes has put the root index; the fetches were
\* collected in another order than they were submitted, one of them without
\* a record.
C16_Witness ==
    /\ agg_pc = "done"
    /\ Published
    /\ Len(objects) = 3
    /\ Count(objects, NoneObj) = 1
    /\ objects[1] # NoneObj
    /\ objects[1].name # SplitName(todo[1])

\* the place of a job's prefix in the listing of the pass
ListedAt(name) == CHOOSE i \in 1..Len(todo) : SplitName(todo[i]) = name

\* C17: records of equal modification time stand in the root listing in the
\* order in which their prefixes were listed, whatever the order in which
\* the fetches completed.
C17_TiesInListingOrder ==
    Published =>
        \A k, l \in 1..Len(Entries) :
            (k < l /\ Entries[k].mtime = Entries[l].mtime) =>
                ListedAt(Entries[k].name) < ListedAt(Entries[l].name)

\* the steps the calls of the pass still have to take
PoolLeft ==
    3 * (pool.total - pool.submitted) + 2 * Queued + pool.running

\* C19: the number of fetches in flight never exceeds the capacity of the
\* worker pool, however many prefixes are listed: a call is started only
\* while fewer than max_workers are running, the others stay queued.  Every
\* call is executed in the end: as long as one has not finished some step
\* of the pool can be taken, and every step reduces the work left.
C19_InFlightBounded ==
    /\ [](/\ pool.running <= max_workers
          /\ pool.running >= 0
          /\ Queued >= 0
          /\ pool.submitted <= pool.total)
    /\ [][pool.running' > pool.running =>
              (pool.running < max_workers /\ pool.running' = pool.running + 1)]_vars
    /\ [](pool.finished < pool.total => ENABLED PoolNext)
    /\ [][PoolLeft' < PoolLeft]_vars
    /\ [](PoolLeft = 0 <=> pool.finished = pool.total)

\* C19: every worker of the pool is busy and a submitted fetch waits.
C19_Witness ==
    /\ pool.running = max_workers
    /\ Queued > 0

(***************************************************************************)
(* Properties of the upload task.                                          *)
(***************************************************************************)
\* C7: CloudUpload is constructed for every uuid of the canonical format;
\* for every other text the constructor fails with the validation error, and
\* nothing has been or will be read or written for it: the job tree holds no
\* index, the store holds no object of the job and no tag.
C7_InvalidUuidRejectedBeforeIO ==
    /\ up_state # "new" =>
          (up_state = "rejected" <=> ~IsCanonicalUUID(ArgText(up_args.uuid)))
    /\ ~IsCanonicalUUID(ArgText(up_args.uuid)) =>
          /\ up_state \in {"new", "rejected"}
          /\ up_self = NoneObj
          /\ runs = 0
          /\ written = << >>
          /\ fs \in {TreeOf(F) : F \in SUBSET Artifacts}
          /\ remote = [j \in Jobs |-> NoFiles]
          /\ markers = [j \in Jobs |-> NoObject]
          /\ now = 1

\* C7: the constructor has rejected a canonical id followed by a character.
C7_Witness == up_state = "rejected" /\ up_args.uuid = -1

\* C8: the second of two successive runs of create_local_indeces on a job
\* tree writes, in every directory, the document the first run wrote.
C8_LocalIndexIdempotent == Len(written) >= 2 => written[2] = written[1]

\* the files of the local job tree
LocalFiles == {p \in DOMAIN fs : fs[p].type = "file"}

\* the name of the file ends in ".gz"
EndsInGz(p) == Len(Last(p)) >= 2 /\ Last(p)[Len(Last(p))] = "gz"

\* what the store holds under the prefix of the task's job
Stored == remote[up_self.uuid]

\* C10 as stated: in a successful upload task every file of the job tree is
\* uploaded by exactly one of the two passes, a file ending in .gz by the
\* gzip pass with content-encoding gzip and any other file by the other pass
\* without it.
C10_EveryFileByExactlyOnePass ==
    up_state = "succeeded" =>
        \A p \in LocalFiles :
            /\ (p \in sent.gz) # (p \in sent.plain)
            /\ p \in sent.gz <=> EndsInGz(p)
            /\ p \in DOMAIN Stored
            /\ Stored[p].enc = IF EndsInGz(p) THEN "gzip" ELSE "none"

\* C10, amended: in a successful upload task no file is uploaded by both
\* passes; the gzip pass uploads only files ending in .gz, with
\* content-encoding gzip, the other pass only the other files, without it.
\* A file is uploaded by neither pass only when the store already holds its
\* current version from an earlier run for the same job, which sync skips;
\* in the first run every file is uploaded by exactly one pass.
C10_NoFileByBothPasses ==
    up_state = "succeeded" =>
        \A p \in LocalFiles :
            /\ ~(p \in sent.gz /\ p \in sent.plain)
            /\ p \in sent.gz => EndsInGz(p) /\ Stored[p].enc = "gzip"
            /\ p \in sent.plain => ~EndsInGz(p) /\ Stored[p].enc = "none"
            /\ p \in sent.gz \cup sent.plain =>
                  Stored[p].time > fs[<<INDEX>>].mtime
            /\ p \notin sent.gz \cup sent.plain =>
                  /\ runs > 1
                  /\ p \in DOMAIN Stored
                  /\ Stored[p].size = fs[p].size
                  /\ Stored[p].time >= fs[p].mtime
                  /\ Stored[p].time < fs[<<INDEX>>].mtime

\* C10: a retried task has succeeded: it has uploaded a plain file by the
\* one pass, a .gz file by the other and skipped a file that was up to date.
C10_Witness ==
    /\ up_state = "succeeded"
    /\ \E p \in LocalFiles : p \in sent.plain
    /\ \E p \in LocalFiles : p \in sent.gz
    /\ \E p \in LocalFiles : p \notin sent.gz \cup sent.plain

(***************************************************************************)
(* Properties of the tasks.                                                *)
(***************************************************************************)
\* the states of a task (FallibleTask of tasks/common.py)
TaskStates == {"pending", "running", "succeeded", "failed"}

\* the state of the CreateRootIndex task, read off its position: no error
\* leaves create_jobs_root_index, so the task ends succeeded
AggState(pc) ==
    CASE pc = "pending" -> "pending"
      [] pc = "done" -> "succeeded"
      [] OTHER -> "running"

\* the moves of one task, and the replacement of a task that has ended by
\* a new one, which is not yet constructed ("new") or pending
TaskMoves ==
    {<<"pending", "running">>, <<"running", "succeeded">>, <<"running", "failed">>}

\* C11: a task moves only along pending -> running -> succeeded or failed.
\* run() enters _run once: it is entered from pending only, and the calls
\* of one run are made once each.  A task is failed exactly when it has
\* recorded the error that left _run, and succeeded only when every call
\* returned.  A task that has ended never moves again: only a new task may
\* take its place.  While the upload task is failed, the aggregation task
\* can start and go on, and a new upload task can be run.
C11_TaskStateMachine ==
    /\ [][up_state' # up_state =>
              \/ <<up_state, up_state'>> \in TaskMoves
              \/ up_state = "new" /\ up_state' \in {"pending", "rejected"}
              \/ /\ up_state \in {"succeeded", "failed"}
                 /\ up_state' = "new" /\ up_self' = NoneObj /\ runs' = runs]_vars
    /\ [][agg_pc' # agg_pc =>
              \/ <<AggState(agg_pc), AggState(agg_pc')>> \in TaskMoves
              \/ AggState(agg_pc) = "running" /\ AggState(agg_pc') = "running"
              \/ agg_pc = "done" /\ agg_pc' = "pending" /\ Len(prev') = Len(prev) + 1]_vars
    /\ [][runs' # runs =>
              /\ up_state = "pending" /\ up_state' = "running"
              /\ runs' = runs + 1
              /\ Len(written') = Len(written) + 1]_vars
    /\ [](up_state \in TaskStates \ {"pending"} =>
              /\ Len(written) = runs
              /\ calls # << >>
              /\ \A k, l \in 1..Len(calls) : calls[k].call = calls[l].call => k = l)
    /\ [](up_state = "failed" <=> up_exc # PyNone)
    /\ [](up_state = "failed" => ~calls[Len(calls)].ok)
    /\ [](up_state = "succeeded" => \A k \in 1..Len(calls) : calls[k].ok)
    /\ [](up_state = "failed" =>
              /\ agg_pc = "pending" => ENABLED CreateRootIndex_run
              /\ agg_pc \in {"listing", "collect"} => ENABLED AggNext
              /\ runs < MaxRuns => ENABLED CloudUpload_again)

\* C11: the upload task has failed in its first pass, after copying a file;
\* an aggregation pass that started afterwards has put the root index.
C11_Witness ==
    /\ up_state = "failed"
    /\ up_exc = "TaskException"
    /\ runs = 1
    /\ FilePool[1] \in DOMAIN remote[up_self.uuid]
    /\ agg_start.time >= remote[up_self.uuid][FilePool[1]].time
    /\ agg_pc = "done"
    /\ PutByPass

\* the calls of _run in the order of lines 254-271
RunOrder == <<"create_local_indeces", "sync_all_except_gz", "sync_gz",
              "assign_jobdir_metadata">>

\* the job-root object of the task's job carries no tag of the current run
NotTaggedInRun ==
    \/ markers[up_self.uuid] = NoObject
    \/ markers[up_self.uuid].LastModified < fs[<<INDEX>>].mtime

\* C12: the calls of a run are made one after the other in the order of
\* _run, and the first call that fails is the last one made: after a failed
\* non-gzip pass neither the gzip pass nor the tag is executed, after a
\* failed gzip pass the tag is not executed.  Whenever a call has failed,
\* the tag included, the task ends failed; it ends succeeded only after all
\* four calls have returned.
C12_FailuresPropagate ==
    up_state \in {"running", "succeeded", "failed"} =>
        /\ Len(calls) <= Len(RunOrder)
        /\ \A k \in 1..Len(calls) : calls[k].call = RunOrder[k]
        /\ \A k \in 1..(Len(calls) - 1) : calls[k].ok
        /\ (\E k \in 1..Len(calls) : ~calls[k].ok) => up_state = "failed"
        /\ up_state = "succeeded" => Len(calls) = Len(RunOrder)
        /\ (up_state = "failed" /\ Len(calls) = 2) => sent.gz = {} /\ NotTaggedInRun
        /\ (up_state = "failed" /\ Len(calls) = 3) => NotTaggedInRun
        /\ (up_state = "failed" /\ Len(calls) = 4) => NotTaggedInRun

\* C12: the gzip pass has failed after the other pass had copied its files;
\* the job has no tag.
C12_Witness ==
    /\ up_state = "failed"
    /\ Len(calls) = 3
    /\ sent.plain # {}
    /\ markers[up_self.uuid] = NoObject

\* C14: an optional job field that is None at the construction of the
\* upload task is stored as the empty string, which is then what the index
\* renderer and the metadata tag are given.
C14_MissingFieldStoredEmpty ==
    up_self # NoneObj =>
        \A f \in {"pr_number", "pr_author", "task_name", "returncode"} :
            up_args[f] = PyNone =>
                /\ up_self[f] = ""
                /\ written # << >> =>
                       written[Len(written)][<< >>].obj_data[f] = ""
                /\ markers[up_self.uuid] # NoObject =>
                       markers[up_self.uuid].Metadata[f] = ""

\* the directories of the local job tree
LocalDirs == {p \in DOMAIN fs : fs[p].type = "dir"}

\* the stored copy of a local file is the file as it is now
UpToDate(p) ==
    /\ p \in DOMAIN Stored
    /\ Stored[p].size = fs[p].size
    /\ Stored[p].time >= fs[p].mtime

\* C15: in every run of the upload task, when an upload pass starts every
\* directory of the job tree holds the index document written in this run,
\* and whatever a pass of the run has copied was copied after the last of
\* them was written.  The tag is put only at the end of a run in which the
\* indices were written and both passes returned, when the store holds every
\* file of the tree as it is; the tag is newer than every one of them.
C15_IndicesThenPassesThenTag ==
    /\ [](up_state = "running" =>
              /\ DOMAIN written[runs] = LocalDirs
              /\ \A d \in LocalDirs :
                     /\ d \o <<INDEX>> \in LocalFiles
                     /\ fs[d \o <<INDEX>>].mtime <= now
                     /\ \A p \in sent.plain \cup sent.gz :
                            Stored[p].time > fs[d \o <<INDEX>>].mtime)
    /\ [][markers' # markers =>
              /\ up_state = "running"
              /\ calls = <<Called("create_local_indeces", TRUE),
                           Called("sync_all_except_gz", TRUE),
                           Called("sync_gz", TRUE)>>
              /\ \A p \in LocalFiles :
                     /\ UpToDate(p)
                     /\ markers'[up_self.uuid].LastModified > Stored[p].time]_vars

\* C15: a run over a tree with a sub-directory has ended with the tag, after
\* each pass had copied files.
C15_Witness ==
    /\ up_state = "succeeded"
    /\ <<SUB>> \in LocalDirs
    /\ sent.plain # {}
    /\ sent.gz # {}
    /\ markers[up_self.uuid] # NoObject

(***************************************************************************)
(* Properties of the pipeline.                                             *)
(***************************************************************************)
\* the jobs named in a sequence of names
NameSet(names) == {names[k] : k \in 1..Len(names)}

\* the current pass has ended, having listed without error and put the
\* root index
PassSucceeded == agg_pc = "done" /\ PutByPass /\ logged = {}

\* C18: a pass of the canonical owner that lists the prefixes without error
\* and puts the root index lists every job of well-formed name whose
\* job-root object was readable when the pass started; so a job that an
\* earlier pass left out for want of its tag is listed by the passes that
\* start after the tag has been put.
C18_SelfHealing ==
    PassSucceeded =>
        \A j \in agg_start.readable :
            IsCanonicalUUID(NameText(j)) => j \in NameSet(NamesOf(rootIndex.Body))

\* C18: the first pass listed the prefix of the job under upload and left
\* the job out; the second pass, started after the tag, lists it.
C18_Witness ==
    /\ Len(prev) = 1
    /\ prev[1].put
    /\ up_args.uuid \in prev[1].listed
    /\ up_args.uuid \notin NameSet(prev[1].names)
    /\ PassSucceeded
    /\ up_args.uuid \in agg_start.readable
    /\ up_args.uuid \in NameSet(NamesOf(rootIndex.Body))

\* the job whose first publication is under way
Uploading == up_args.uuid

\* the store holds a copy of every file of the job tree, each with the
\* encoding of its pass
BothPassesDone ==
    \A p \in LocalFiles :
        /\ p \in DOMAIN remote[Uploading]
        /\ remote[Uploading][p].enc = IF EndsInGz(p) THEN "gzip" ELSE "none"

\* C20: however the first publication of a job and the aggregation passes
\* interleave, a job named in a root index that has been put has its
\* job-root object, and both upload passes have completed for it.  A fetch
\* made while the job-root object is not yet written yields no record, so a
\* pass that ends before the tag does not list the job although it has
\* listed its prefix.
C20_ListedOnlyWhenUploaded ==
    /\ (rootIndex # NoObject /\ Uploading \in NameSet(NamesOf(rootIndex.Body))) =>
           /\ markers[Uploading] # NoObject
           /\ BothPassesDone
    /\ \A i \in 1..Len(futures) :
           (/\ SplitName(todo[i]) = Uploading
            /\ futures[i].st \in {"done", "collected"}
            /\ futures[i].res # NoneObj) =>
               /\ markers[Uploading] # NoObject
               /\ BothPassesDone
    /\ (agg_pc = "done" /\ PutByPass /\ markers[Uploading] = NoObject) =>
           Uploading \notin NameSet(NamesOf(rootIndex.Body))

\* C20: a pass has listed the prefix of the job while its upload was going
\* on, and has put a root index without the job.
C20_Witness ==
    /\ agg_pc = "done"
    /\ PutByPass
    /\ Uploading \in ListedJobs
    /\ up_state = "running"
    /\ markers[Uploading] = NoObject
    /\ Uploading \notin NameSet(NamesOf(rootIndex.Body))

(***************************************************************************)
(* Properties of the tagging.                                              *)
(***************************************************************************)
\* the step is a call of assign_jobdir_metadata
TagStep == Len(calls') = Len(calls) + 1

\* the call of the step, and the call before it
ThisTag == calls'[Len(calls')]
LastTag == calls[Len(calls)]

\* the step repeats the call made just before, with the same arguments
SameTagAgain ==
    /\ TagStep
    /\ calls # << >>
    /\ ThisTag.uuid = LastTag.uuid
    /\ ThisTag.metadata = LastTag.metadata

\* the call replaces the metadata map and touches nothing but the job-root
\* object of its job, whose body stays empty
TagReplaces ==
    /\ markers'[ThisTag.uuid].Metadata = ThisTag.metadata
    /\ markers'[ThisTag.uuid].Body = ""
    /\ markers[ThisTag.uuid] # NoObject =>
           markers'[ThisTag.uuid].Body = markers[ThisTag.uuid].Body
    /\ \A j \in Jobs \ {ThisTag.uuid} : markers'[j] = markers[j]
    /\ remote' = remote
    /\ rootIndex' = rootIndex

\* C13 as stated: a call of assign_jobdir_metadata replaces the metadata
\* map of the job-root object by the values given and changes neither its
\* body nor any other object; a second call with the same arguments leaves
\* the store in the state the first call left.
C13_TagIdempotent ==
    [][TagStep => (TagReplaces /\ (SameTagAgain => markers' = markers))]_vars

\* C13, amended: as above, but a second call with the same arguments leaves
\* the store as the first call left it except for the modification time of
\* the job-root object, which every call sets anew.
C13_TagIdempotentButMtime ==
    [][TagStep =>
          /\ TagReplaces
          /\ markers'[ThisTag.uuid].LastModified = now'
          /\ now' > now
          /\ SameTagAgain =>
                /\ markers' = [markers EXCEPT ![ThisTag.uuid].LastModified = now']
                /\ markers'[ThisTag.uuid].LastModified
                       > markers[ThisTag.uuid].LastModified]_vars

\* C13: a job has been tagged twice with the same values, another job
\* keeps the tag it had.
C13_Witness ==
    /\ Len(calls) = 2
    /\ calls[1].uuid = calls[2].uuid
    /\ calls[1].metadata = calls[2].metadata
    /\ \E j \in Jobs \ {calls[1].uuid} :
          markers[j] # NoObject /\ markers[j].Metadata # EmptyMeta

=============================================================================
